---- MODULE Spec2Model ----
(***************************************************************************)
(* Model of bellabeat_pdf_generation_code.py: a script that loads a FitBit *)
(* activity table, derives per-record columns, aggregates them, renders a  *)
(* three-page PDF report and exports two CSV files.                        *)
(*                                                                         *)
(* Spec          the script exactly as written, run top to bottom.         *)
(* SpecResolved  the statements from line 73 on, started from the states   *)
(*               lines 56-70 produce when the name classify_activity_level *)
(*               at line 69 resolves to the loader's function.  In the     *)
(*               script as written that name is local to                   *)
(*               load_and_clean_data, so Spec never gets past line 69.     *)
(***************************************************************************)
EXTENDS Integers, Sequences, FiniteSets, TLC

VARIABLES file, unwritable, pc, df, analysis_results, results,
          visualization_fig, pdf, disk, error

vars == <<file, unwritable, pc, df, analysis_results, results,
          visualization_fig, pdf, disk, error>>

\* Largest number of data rows of an enumerated input file.
MaxRecords == 2

(***************************************************************************)
(* Numbers.  pandas computes means and percentages in float64; the model   *)
(* keeps them as exact fractions, with NaN and inf as float division       *)
(* produces them.                                                          *)
(***************************************************************************)
Num(n, d) == [kind |-> "num", num |-> n, den |-> d]
NaN == [kind |-> "nan", num |-> 0, den |-> 1]
Inf == [kind |-> "inf", num |-> 1, den |-> 1]

\* Series / Series of integer columns: x/0 is NaN for x = 0 and inf otherwise.
FloatDiv(a, b) ==
    IF b = 0 THEN (IF a = 0 THEN NaN ELSE Inf) ELSE Num(a, b)

Times100(x) == IF x.kind = "num" THEN Num(100 * x.num, x.den) ELSE x

\* x < c for a float x and an integer literal c; any comparison with NaN is False.
LessThan(x, c) ==
    CASE x.kind = "num" -> x.num < c * x.den
      [] x.kind = "nan" -> FALSE
      [] OTHER -> FALSE

RECURSIVE SumSeq(_)
SumSeq(s) == IF s = <<>> THEN 0 ELSE Head(s) + SumSeq(Tail(s))

\* Series.mean(): NaN for an empty series.
Mean(s) == IF s = <<>> THEN NaN ELSE Num(SumSeq(s), Len(s))

RECURSIVE SelectIdx(_, _, _)
\* The subsequence of s at the positions i with keep[i], in order.
SelectIdx(s, keep, i) ==
    IF i > Len(s) THEN <<>>
    ELSE (IF keep[i] THEN <<s[i]>> ELSE <<>>) \o SelectIdx(s, keep, i + 1)

Column(d, c) == [i \in 1..Len(d) |-> d[i][c]]

\* d[c] for the rows whose column k holds v.
ColumnWhere(d, c, k, v) ==
    SelectIdx(Column(d, c), [i \in 1..Len(d) |-> d[i][k] = v], 1)

(***************************************************************************)
(* Dates.  A date string "m/d/yyyy" is the triple <<m, d, yyyy>>; a        *)
(* Timestamp is [y, m, d].                                                 *)
(***************************************************************************)
IsLeap(y) == (y % 4 = 0 /\ y % 100 # 0) \/ y % 400 = 0

DaysInMonth(m, y) ==
    CASE m \in {1, 3, 5, 7, 8, 10, 12} -> 31
      [] m \in {4, 6, 9, 11} -> 30
      [] OTHER -> IF IsLeap(y) THEN 29 ELSE 28

Parseable(s) ==
    /\ s[1] \in 1..12
    /\ s[2] >= 1
    /\ s[2] <= DaysInMonth(s[1], s[3])

\* pd.to_datetime on one element that parses.
to_datetime(s) == [y |-> s[3], m |-> s[1], d |-> s[2]]

day_order ==
    <<"Monday", "Tuesday", "Wednesday", "Thursday", "Friday", "Saturday", "Sunday">>

\* Timestamp.day_name(): the Gregorian weekday (Zeller's congruence, 0 = Saturday).
day_name(t) ==
    LET mm == IF t.m < 3 THEN t.m + 12 ELSE t.m
        yy == IF t.m < 3 THEN t.y - 1 ELSE t.y
        K == yy % 100
        J == yy \div 100
        h == (t.d + ((13 * (mm + 1)) \div 5) + K + (K \div 4) + (J \div 4) + 5 * J) % 7
    IN  day_order[((h + 5) % 7) + 1]

DateLeq(a, b) ==
    \/ a.y < b.y
    \/ a.y = b.y /\ a.m < b.m
    \/ a.y = b.y /\ a.m = b.m /\ a.d <= b.d

\* Timestamp.strftime('%Y-%m-%d'): the fields in year, month, day order.
strftime(t) == <<t.y, t.m, t.d>>

(***************************************************************************)
(* load_and_clean_data                                                     *)
(***************************************************************************)
Labels == {"Sedentary", "Lightly Active", "Fairly Active", "Very Active"}

\* A plausible slip: the first threshold closed instead of half-open.
classify_closed_threshold(steps) ==
    IF LessThan(steps, 5001) THEN "Sedentary"
    ELSE IF LessThan(steps, 7500) THEN "Lightly Active"
    ELSE IF LessThan(steps, 10000) THEN "Fairly Active"
    ELSE "Very Active"

classify_activity_level(steps) ==
    IF LessThan(steps, 5000) THEN "Sedentary"
    ELSE IF LessThan(steps, 7500) THEN "Lightly Active"
    ELSE IF LessThan(steps, 10000) THEN "Fairly Active"
    ELSE "Very Active"

\* A plausible slip: the lightly active minutes left out of the sum.
TotalActiveMinutesNoLight(r) == r.VeryActiveMinutes + r.FairlyActiveMinutes

TotalActiveMinutesOf(r) ==
    r.VeryActiveMinutes + r.FairlyActiveMinutes + r.LightlyActiveMinutes

ActivityPercentageOf(r) ==
    Times100(FloatDiv(TotalActiveMinutesOf(r), TotalActiveMinutesOf(r) + r.SedentaryMinutes))

RequiredColumns ==
    {"Id", "ActivityDate", "TotalSteps", "Calories", "VeryActiveMinutes",
     "FairlyActiveMinutes", "LightlyActiveMinutes", "SedentaryMinutes"}

DeriveRow(r) ==
    LET date == to_datetime(r.ActivityDate)
        dow == day_name(date)
    IN  [Id |-> r.Id,
         ActivityDate |-> date,
         TotalSteps |-> r.TotalSteps,
         Calories |-> r.Calories,
         VeryActiveMinutes |-> r.VeryActiveMinutes,
         FairlyActiveMinutes |-> r.FairlyActiveMinutes,
         LightlyActiveMinutes |-> r.LightlyActiveMinutes,
         SedentaryMinutes |-> r.SedentaryMinutes,
         ActivityLevel |-> classify_activity_level(Num(r.TotalSteps, 1)),
         DayOfWeek |-> dow,
         TotalActiveMinutes |-> TotalActiveMinutesOf(r),
         ActivityPercentage |-> ActivityPercentageOf(r),
         IsWeekend |-> dow \in {"Saturday", "Sunday"}]

NoError == [type |-> "none", line |-> 0]
Raise(t, l) == [type |-> t, line |-> l]

\* errors='coerce' instead of the default errors='raise': bad dates go through.
DatesParseCoerce(f) == TRUE

\* pd.to_datetime(column) with the default errors='raise'.
DatesParse(f) == \A i \in 1..Len(f.rows) : Parseable(f.rows[i].ActivityDate)

\* The first exception load_and_clean_data raises on file f, or NoError.
LoadError(f) ==
    IF "ActivityDate" \notin f.columns THEN Raise("KeyError", 23)
    ELSE IF ~DatesParse(f) THEN Raise("ValueError", 23)
    ELSE IF "TotalSteps" \notin f.columns THEN Raise("KeyError", 36)
    ELSE IF {"VeryActiveMinutes", "FairlyActiveMinutes", "LightlyActiveMinutes"}
              \ f.columns # {} THEN Raise("KeyError", 38)
    ELSE IF "SedentaryMinutes" \notin f.columns THEN Raise("KeyError", 39)
    ELSE NoError

\* The DataFrame load_and_clean_data returns: one derived row per input row, in order.
load_and_clean_data(f) == [i \in 1..Len(f.rows) |-> DeriveRow(f.rows[i])]

(***************************************************************************)
(* analyze_data, statement by statement                                    *)
(***************************************************************************)
\* Series.value_counts(normalize=True) * 100 over the values of f: one entry per
\* value that occurs, none for a value that does not.
ValueCountsPct(f) ==
    [l \in {f[x] : x \in DOMAIN f} |->
        Num(100 * Cardinality({x \in DOMAIN f : f[x] = l}), Cardinality(DOMAIN f))]

MinDate(d) ==
    CHOOSE t \in {d[i].ActivityDate : i \in 1..Len(d)} :
        \A i \in 1..Len(d) : DateLeq(t, d[i].ActivityDate)

MaxDate(d) ==
    CHOOSE t \in {d[i].ActivityDate : i \in 1..Len(d)} :
        \A i \in 1..Len(d) : DateLeq(d[i].ActivityDate, t)

\* The first exception lines 56-63 raise, or NoError: min() of an empty datetime
\* column is NaT, and NaT.strftime raises ValueError.
BasicStatsError(f, d) ==
    IF Len(d) = 0 THEN Raise("ValueError", 59)
    ELSE IF "Calories" \notin f.columns THEN Raise("KeyError", 61)
    ELSE NoError

basic_stats(d) ==
    [total_records |-> Len(d),
     unique_users |-> Cardinality({d[i].Id : i \in 1..Len(d)}),
     date_range |-> [from |-> strftime(MinDate(d)), to |-> strftime(MaxDate(d))],
     avg_steps |-> Mean(Column(d, "TotalSteps")),
     avg_calories |-> Mean(Column(d, "Calories")),
     avg_sedentary_hours |->
        Num(SumSeq(Column(d, "SedentaryMinutes")), 60 * Len(d))]

activity_distribution(d) == ValueCountsPct(Column(d, "ActivityLevel"))

\* df.groupby('Id')['TotalSteps'].mean().apply(classify_activity_level)
user_stats(d) ==
    [u \in {d[i].Id : i \in 1..Len(d)} |->
        classify_activity_level(Mean(ColumnWhere(d, "TotalSteps", "Id", u)))]

user_activity_levels(d) == ValueCountsPct(user_stats(d))

\* groupby sorts its keys: the weekday names in alphabetical order.
AlphaDays ==
    <<"Friday", "Monday", "Saturday", "Sunday", "Thursday", "Tuesday", "Wednesday">>

\* df.groupby('DayOfWeek')['TotalSteps'].mean(): the days that occur, sorted.
GroupByDayOfWeek(d) ==
    LET present == SelectIdx(AlphaDays,
                       [i \in 1..7 |-> \E j \in 1..Len(d) : d[j].DayOfWeek = AlphaDays[i]], 1)
    IN  [i \in 1..Len(present) |->
            [key |-> present[i],
             value |-> Mean(ColumnWhere(d, "TotalSteps", "DayOfWeek", present[i]))]]

\* The group-by result used as it comes, without .reindex(day_order).
ReindexSkipped(series, order) == series

\* Series.reindex(order): the labels of order, in that order; NaN where absent.
Reindex(series, order) ==
    [i \in 1..Len(order) |->
        [key |-> order[i],
         value |-> IF \E j \in 1..Len(series) : series[j].key = order[i]
                   THEN series[CHOOSE j \in 1..Len(series) : series[j].key = order[i]].value
                   ELSE NaN]]

weekly_patterns(d) == Reindex(GroupByDayOfWeek(d), day_order)

weekend_comparison(d) ==
    [w \in {d[i].IsWeekend : i \in 1..Len(d)} |->
        [TotalSteps |-> Mean(ColumnWhere(d, "TotalSteps", "IsWeekend", w)),
         VeryActiveMinutes |-> Mean(ColumnWhere(d, "VeryActiveMinutes", "IsWeekend", w)),
         SedentaryMinutes |-> Mean(ColumnWhere(d, "SedentaryMinutes", "IsWeekend", w))]]

\* The names bound at module level when line 87 runs: the imports, the three
\* functions defined so far and df.  classify_activity_level is not among them:
\* it is bound inside load_and_clean_data only.
ModuleGlobals ==
    {"pd", "np", "plt", "sns", "datetime", "PdfPages", "warnings",
     "load_and_clean_data", "df", "analyze_data"}

(***************************************************************************)
(* Input files                                                             *)
(***************************************************************************)
Ids == {1, 2}

\* 4/12/2016 is a Tuesday, 4/16/2016 a Saturday; April has no 31st.
DateStrings == {<<4, 12, 2016>>, <<4, 16, 2016>>}
BadDateString == <<4, 31, 2016>>

Measure(s, c, v, f, l, sed) ==
    [TotalSteps |-> s, Calories |-> c, VeryActiveMinutes |-> v,
     FairlyActiveMinutes |-> f, LightlyActiveMinutes |-> l, SedentaryMinutes |-> sed]

\* One day's measurements: a day on which the device recorded nothing at all, and
\* the step counts on either side of each threshold.
Measurements ==
    {Measure(0, 0, 0, 0, 0, 0),
     Measure(4999, 1700, 0, 0, 150, 1290),
     Measure(5000, 1750, 0, 10, 160, 1270),
     Measure(7499, 1900, 10, 15, 200, 1215),
     Measure(7500, 1950, 15, 15, 210, 1200),
     Measure(9999, 2200, 30, 20, 240, 1150),
     Measure(10000, 2250, 60, 20, 40, 1320)}

Row(id, date, m) ==
    [Id |-> id, ActivityDate |-> date,
     TotalSteps |-> m.TotalSteps, Calories |-> m.Calories,
     VeryActiveMinutes |-> m.VeryActiveMinutes,
     FairlyActiveMinutes |-> m.FairlyActiveMinutes,
     LightlyActiveMinutes |-> m.LightlyActiveMinutes,
     SedentaryMinutes |-> m.SedentaryMinutes]

Rows == {Row(id, date, m) : id \in Ids, date \in DateStrings, m \in Measurements}

\* Four users, one day each, one user per activity level.
FourUserRows ==
    <<Row(1, <<4, 12, 2016>>, Measure(3000, 1500, 0, 0, 10, 1430)),
      Row(2, <<4, 13, 2016>>, Measure(6000, 1800, 5, 10, 180, 1245)),
      Row(3, <<4, 16, 2016>>, Measure(8000, 2000, 20, 15, 220, 1185)),
      Row(4, <<4, 17, 2016>>, Measure(12000, 2400, 60, 20, 40, 1320))>>

WellFormedFile(s) == [columns |-> RequiredColumns, rows |-> s]

\* The file of rows s without column c in its header.
MissingColumnFile(s, c) == [columns |-> RequiredColumns \ {c}, rows |-> s]

\* The file of rows s with the date of row i replaced by one that does not parse.
BadDateFile(s, i) ==
    [columns |-> RequiredColumns, rows |-> [s EXCEPT ![i].ActivityDate = BadDateString]]

\* The input files considered: up to MaxRecords rows, well formed or with one
\* format defect, and the four-user file.
IsInputFile(f) ==
    \/ f = WellFormedFile(FourUserRows)
    \/ \E n \in 0..MaxRecords : \E s \in [1..n -> Rows] :
          \/ f = WellFormedFile(s)
          \/ \E c \in RequiredColumns : f = MissingColumnFile(s, c)
          \/ \E i \in 1..n : f = BadDateFile(s, i)

\* The well-formed input files with at least one row.
IsLoadableFile(f) ==
    \/ f = WellFormedFile(FourUserRows)
    \/ \E n \in 1..MaxRecords : \E s \in [1..n -> Rows] : f = WellFormedFile(s)

OutputFiles ==
    {"bellabeat_analysis_report.pdf", "bellabeat_cleaned_data.csv", "analysis_summary.csv"}

(***************************************************************************)
(* The script as written                                                   *)
(***************************************************************************)
NoDict == <<>>
NoPdf == [state |-> "none", pages |-> 0]

Init ==
    /\ IsInputFile(file)
    /\ unwritable = {}
    /\ pc = "L45"
    /\ df = <<>>
    /\ analysis_results = NoDict
    /\ results = NoDict
    /\ visualization_fig = FALSE
    /\ pdf = NoPdf
    /\ disk = <<>>
    /\ error = NoError

Abort(e) ==
    /\ pc' = "aborted"
    /\ error' = e
    /\ analysis_results' = NoDict

\* Line 45: df = load_and_clean_data('FitBit_data.csv.csv')
LoadData ==
    /\ pc = "L45"
    /\ IF LoadError(file) # NoError
       THEN Abort(LoadError(file)) /\ UNCHANGED df
       ELSE /\ df' = load_and_clean_data(file)
            /\ pc' = "L46"
            /\ UNCHANGED <<error, analysis_results>>
    /\ UNCHANGED <<file, unwritable, results, visualization_fig, pdf, disk>>

\* Line 46: the print reads df['Id'].
PrintLoaded ==
    /\ pc = "L46"
    /\ IF "Id" \notin file.columns
       THEN Abort(Raise("KeyError", 46))
       ELSE pc' = "L56" /\ UNCHANGED <<error, analysis_results>>
    /\ UNCHANGED <<file, unwritable, df, results, visualization_fig, pdf, disk>>

\* Lines 53-63, entered from the call at line 87.
AnalyzeBasicStats ==
    /\ pc = "L56"
    /\ IF BasicStatsError(file, df) # NoError
       THEN Abort(BasicStatsError(file, df))
       ELSE /\ analysis_results' = [basic_stats |-> basic_stats(df)]
            /\ pc' = "L66"
            /\ UNCHANGED error
    /\ UNCHANGED <<file, unwritable, df, results, visualization_fig, pdf, disk>>

\* Line 66.
AnalyzeActivityDistribution ==
    /\ pc = "L66"
    /\ analysis_results' =
          analysis_results @@ [activity_distribution |-> activity_distribution(df)]
    /\ pc' = "L69"
    /\ UNCHANGED <<file, unwritable, df, results, visualization_fig, pdf, disk, error>>

\* Lines 69-70: the argument classify_activity_level is looked up in the function's
\* locals, then the module's globals, then the builtins.
AnalyzeUserLevels ==
    /\ pc = "L69"
    /\ IF "classify_activity_level" \in ModuleGlobals
       THEN /\ analysis_results' =
                  analysis_results @@ [user_activity_levels |-> user_activity_levels(df)]
            /\ pc' = "L73"
            /\ UNCHANGED error
       ELSE Abort(Raise("NameError", 69))
    /\ UNCHANGED <<file, unwritable, df, results, visualization_fig, pdf, disk>>

Next ==
    \/ LoadData
    \/ PrintLoaded
    \/ AnalyzeBasicStats
    \/ AnalyzeActivityDistribution
    \/ AnalyzeUserLevels

Spec == Init /\ [][Next]_vars

(***************************************************************************)
(* The statements after line 70                                            *)
(***************************************************************************)
\* The state at line 73 when lines 56-70 have run on a loaded, non-empty table and
\* line 69 has applied the loader's classify_activity_level to the per-user means.
InitResolved ==
    /\ IsLoadableFile(file)
    /\ unwritable \in SUBSET OutputFiles
    /\ pc = "L73"
    /\ df = load_and_clean_data(file)
    /\ analysis_results =
          [basic_stats |-> basic_stats(df),
           activity_distribution |-> activity_distribution(df),
           user_activity_levels |-> user_activity_levels(df)]
    /\ results = NoDict
    /\ visualization_fig = FALSE
    /\ pdf = NoPdf
    /\ disk = <<>>
    /\ error = NoError

\* Lines 73-75.
AnalyzeWeeklyPatterns ==
    /\ pc = "L73"
    /\ analysis_results' = analysis_results @@ [weekly_patterns |-> weekly_patterns(df)]
    /\ pc' = "L78"
    /\ UNCHANGED <<file, unwritable, df, results, visualization_fig, pdf, disk, error>>

\* Lines 78-85 and the assignment at line 87.
AnalyzeWeekendComparison ==
    /\ pc = "L78"
    /\ results' = analysis_results @@ [weekend_comparison |-> weekend_comparison(df)]
    /\ analysis_results' = NoDict
    /\ pc' = "L149"
    /\ UNCHANGED <<file, unwritable, df, visualization_fig, pdf, disk, error>>

\* Lines 93-149: the figure is built in memory; nothing is written.
create_visualizations ==
    /\ pc = "L149"
    /\ visualization_fig' = TRUE
    /\ pc' = "L158"
    /\ UNCHANGED <<file, unwritable, df, analysis_results, results, pdf, disk, error>>

\* Lines 158-195: PdfPages opens the report file and page 1 is saved into it.  A
\* file that cannot be opened raises OSError and nothing is created.
PdfSummaryPage ==
    /\ pc = "L158"
    /\ IF "bellabeat_analysis_report.pdf" \in unwritable
       THEN Abort(Raise("OSError", 158)) /\ UNCHANGED pdf
       ELSE /\ pdf' = [state |-> "open", pages |-> 1]
            /\ pc' = "L198"
            /\ UNCHANGED <<error, analysis_results>>
    /\ UNCHANGED <<file, unwritable, df, results, visualization_fig, disk>>

\* Line 198.
PdfVisualizationPage ==
    /\ pc = "L198"
    /\ pdf' = [pdf EXCEPT !.pages = 2]
    /\ pc' = "L201"
    /\ UNCHANGED <<file, unwritable, df, analysis_results, results,
                   visualization_fig, disk, error>>

\* The labels the f-string of lines 207-223 looks up in each distribution.
Page3KeysPresent(res) ==
    /\ Labels \subseteq DOMAIN res.activity_distribution
    /\ Labels \subseteq DOMAIN res.user_activity_levels

\* PdfPages.__exit__ calls close(), whatever ended the block: the file is finalized
\* with the pages saved so far.
PdfClose(p) == [pages |-> p.pages]

\* Lines 201-252 and the end of the with block.  A label missing from a
\* distribution raises KeyError while the text of page 3 is built.
PdfDetailPage ==
    /\ pc = "L201"
    /\ IF Page3KeysPresent(results)
       THEN /\ pdf' = [state |-> "closed", pages |-> 3]
            /\ pc' = "L263"
            /\ UNCHANGED <<error, analysis_results>>
       ELSE /\ pdf' = [pdf EXCEPT !.state = "closed"]
            /\ Abort(Raise("KeyError", 207))
    /\ disk' = disk @@ [report |-> PdfClose(pdf')]
    /\ UNCHANGED <<file, unwritable, df, results, visualization_fig>>

\* Line 263.
ExportCleanedData ==
    /\ pc = "L263"
    /\ IF "bellabeat_cleaned_data.csv" \in unwritable
       THEN Abort(Raise("OSError", 263)) /\ UNCHANGED disk
       ELSE /\ disk' = disk @@ [cleaned |-> df]
            /\ pc' = "L267"
            /\ UNCHANGED <<error, analysis_results>>
    /\ UNCHANGED <<file, unwritable, df, results, visualization_fig, pdf>>

ValueLeq(a, b) == a.num * b.den <= b.num * a.den

\* Series.idxmax(): NaN entries skipped, the first label among equal maxima.
idxmax(series) ==
    LET live == {i \in 1..Len(series) : series[i].value.kind = "num"}
        best == CHOOSE i \in live :
                    /\ \A j \in live : ValueLeq(series[j].value, series[i].value)
                    /\ \A j \in live : j < i => ~ValueLeq(series[i].value, series[j].value)
    IN  series[best].key

\* Series.idxmin(): NaN entries skipped, the first label among equal minima.
idxmin(series) ==
    LET live == {i \in 1..Len(series) : series[i].value.kind = "num"}
        best == CHOOSE i \in live :
                    /\ \A j \in live : ValueLeq(series[i].value, series[j].value)
                    /\ \A j \in live : j < i => ~ValueLeq(series[j].value, series[i].value)
    IN  series[best].key

\* Lines 267-274.
summary_df ==
    <<[Metric |-> "Total Records", Value |-> Len(df)],
      [Metric |-> "Unique Users", Value |-> Cardinality({df[i].Id : i \in 1..Len(df)})],
      [Metric |-> "Average Daily Steps", Value |-> Mean(Column(df, "TotalSteps"))],
      [Metric |-> "Average Sedentary Hours",
       Value |-> Num(SumSeq(Column(df, "SedentaryMinutes")), 60 * Len(df))],
      [Metric |-> "Most Active Day", Value |-> idxmax(results.weekly_patterns)],
      [Metric |-> "Least Active Day", Value |-> idxmin(results.weekly_patterns)]>>

\* Lines 267-275.
ExportSummary ==
    /\ pc = "L267"
    /\ IF "analysis_summary.csv" \in unwritable
       THEN Abort(Raise("OSError", 275)) /\ UNCHANGED disk
       ELSE /\ disk' = disk @@ [summary |-> summary_df]
            /\ pc' = "L278"
            /\ UNCHANGED <<error, analysis_results>>
    /\ UNCHANGED <<file, unwritable, df, results, visualization_fig, pdf>>

\* Lines 278-284.
Finish ==
    /\ pc = "L278"
    /\ pc' = "done"
    /\ UNCHANGED <<file, unwritable, df, analysis_results, results,
                   visualization_fig, pdf, disk, error>>

NextResolved ==
    \/ AnalyzeWeeklyPatterns
    \/ AnalyzeWeekendComparison
    \/ create_visualizations
    \/ PdfSummaryPage
    \/ PdfVisualizationPage
    \/ PdfDetailPage
    \/ ExportCleanedData
    \/ ExportSummary
    \/ Finish

SpecResolved == InitResolved /\ [][NextResolved]_vars

(***************************************************************************)
(* Properties                                                              *)
(***************************************************************************)
\* The activity level the documented thresholds give an integer step count.
ThresholdLevel(s) ==
    CASE s < 5000 -> "Sedentary"
      [] s >= 5000 /\ s < 7500 -> "Lightly Active"
      [] s >= 7500 /\ s < 10000 -> "Fairly Active"
      [] s >= 10000 -> "Very Active"

HasFormatError(f) ==
    \/ f.columns # RequiredColumns
    \/ \E i \in 1..Len(f.rows) : ~Parseable(f.rows[i].ActivityDate)

Loaded == pc \in {"L46", "L56", "L66", "L69"}

\* C1: classify_activity_level maps every step count to exactly one of the four
\* levels with half-open thresholds at 5000, 7500 and 10000 (4999, 5000, 7499,
\* 7500, 9999, 10000 give Sedentary, Lightly Active, Lightly Active, Fairly Active,
\* Fairly Active, Very Active), and every loaded record's ActivityLevel is the level
\* of its own TotalSteps.
C1_ClassifyHalfOpen ==
    /\ classify_activity_level(Num(4999, 1)) = "Sedentary"
    /\ classify_activity_level(Num(5000, 1)) = "Lightly Active"
    /\ classify_activity_level(Num(7499, 1)) = "Lightly Active"
    /\ classify_activity_level(Num(7500, 1)) = "Fairly Active"
    /\ classify_activity_level(Num(9999, 1)) = "Fairly Active"
    /\ classify_activity_level(Num(10000, 1)) = "Very Active"
    /\ Loaded => Len(df) = Len(file.rows)
    /\ \A i \in 1..Len(df) :
          /\ df[i].ActivityLevel \in Labels
          /\ df[i].ActivityLevel = ThresholdLevel(file.rows[i].TotalSteps)

\* C1 witness: a loaded table holding a 4999-step Sedentary record and a 5000-step
\* Lightly Active record.
C1_Witness ==
    /\ pc = "L46"
    /\ \E i, j \in 1..Len(df) :
          /\ df[i].TotalSteps = 4999 /\ df[i].ActivityLevel = "Sedentary"
          /\ df[j].TotalSteps = 5000 /\ df[j].ActivityLevel = "Lightly Active"

\* C2: on a non-empty, well-formed table analyze_data gets through the user-level
\* analysis: the run is never aborted once such a table is loaded.
C2_UserLevelsComputed ==
    (Len(df) > 0 /\ file.columns = RequiredColumns) => pc # "aborted"

\* C3: whenever activity_distribution has been computed it has exactly the four
\* bucket labels as keys.
C3_FourBucketKeys ==
    "activity_distribution" \in DOMAIN analysis_results =>
        DOMAIN analysis_results.activity_distribution = Labels

\* The steps of the rows of d recorded on weekday day.
StepsOn(d, day) == ColumnWhere(d, "TotalSteps", "DayOfWeek", day)

SevenDays(w) ==
    /\ Len(w) = 7
    /\ w[1].key = "Monday" /\ w[2].key = "Tuesday" /\ w[3].key = "Wednesday"
    /\ w[4].key = "Thursday" /\ w[5].key = "Friday" /\ w[6].key = "Saturday"
    /\ w[7].key = "Sunday"
    /\ \A i \in 1..7 :
          LET steps == StepsOn(df, w[i].key)
          IN  IF steps = <<>>
              THEN w[i].value.kind = "nan"
              ELSE /\ w[i].value.kind = "num"
                   /\ w[i].value.num * Len(steps) = SumSeq(steps) * w[i].value.den

ThresholdLevelOfMean(s, n) ==
    CASE s < 5000 * n -> "Sedentary"
      [] s >= 5000 * n /\ s < 7500 * n -> "Lightly Active"
      [] s >= 7500 * n /\ s < 10000 * n -> "Fairly Active"
      [] s >= 10000 * n -> "Very Active"

WellFormedAllBuckets(f) ==
    /\ ~HasFormatError(f)
    /\ {ThresholdLevel(f.rows[i].TotalSteps) : i \in 1..Len(f.rows)} = Labels
    /\ \A l \in Labels : \E u \in {f.rows[i].Id : i \in 1..Len(f.rows)} :
          LET mine == SelectIdx(f.rows, [i \in 1..Len(f.rows) |-> f.rows[i].Id = u], 1)
          IN  ThresholdLevelOfMean(SumSeq(Column(mine, "TotalSteps")), Len(mine)) = l

\* C5: a run on a well-formed input in which all four buckets occur at record and
\* at user level does not abort: it goes through the stages in order to the end.
C5_RunCompletes ==
    WellFormedAllBuckets(file) => pc # "aborted"

C8_ZeroRecordsDefined ==
    (file.columns = RequiredColumns /\ file.rows = <<>> /\ pc = "aborted")
        => error.type = "DegenerateDataError"

\* C9: a file with a missing required column or an unparseable date never gets
\* past the statement that first reads the defect, the run ends in the exception
\* raised there, no output file exists, and an unparseable date never yields a
\* loaded table.
C9_FormatErrorFatal ==
    HasFormatError(file) =>
        /\ pc \in {"L45", "L46", "L56", "aborted"}
        /\ DOMAIN disk = {}
        /\ pc = "aborted" => error.type \in {"KeyError", "ValueError"}
        /\ (\E i \in 1..Len(file.rows) : ~Parseable(file.rows[i].ActivityDate))
              => (pc \in {"L45", "aborted"} /\ df = <<>>)

\* C9 witness: the run is aborted by the date conversion at line 23 on a file
\* holding an unparseable date, with nothing written.
C9_Witness ==
    /\ pc = "aborted"
    /\ error = Raise("ValueError", 23)
    /\ \E i \in 1..Len(file.rows) : file.rows[i].ActivityDate = BadDateString
    /\ DOMAIN disk = {}

\* C10: every loaded record has TotalActiveMinutes equal to the sum of its three
\* active-minute columns and ActivityPercentage equal to
\* TotalActiveMinutes / (TotalActiveMinutes + SedentaryMinutes) x 100, NaN when
\* both are zero; no row is dropped and the derivation raises nothing of its own.
C10_ActiveMinutesAndPercentage ==
    /\ Loaded => Len(df) = Len(file.rows)
    /\ error.line \in {38, 39} => (error.type = "KeyError" /\ file.columns # RequiredColumns)
    /\ \A i \in 1..Len(df) :
          LET r == file.rows[i]
              active == r.VeryActiveMinutes + r.FairlyActiveMinutes + r.LightlyActiveMinutes
              whole == active + r.SedentaryMinutes
              pct == df[i].ActivityPercentage
          IN  /\ df[i].TotalActiveMinutes = active
              /\ IF whole = 0
                 THEN pct.kind = "nan"
                 ELSE pct.kind = "num" /\ pct.num * whole = 100 * active * pct.den

\* C10 witness: a loaded table holding a record with no minutes at all, whose
\* percentage is NaN, next to a record with a computed percentage.
C10_Witness ==
    /\ pc = "L46"
    /\ \E i, j \in 1..Len(df) :
          /\ df[i].TotalActiveMinutes + df[i].SedentaryMinutes = 0
          /\ df[i].ActivityPercentage.kind = "nan"
          /\ df[j].TotalActiveMinutes > 0
          /\ df[j].ActivityPercentage.kind = "num"

====
